---- MODULE Spec2Model ----
(***************************************************************************)
(* HKID operations of rust_hkid_ops: the check-digit calculator, the       *)
(* prefix classifier, the validator and the generator, in both of their    *)
(* implementations (the free functions of hkid_check_digit.rs,             *)
(* hkid_validator.rs and hkid_generator.rs, and the methods of HKIDOps in  *)
(* hkid_ops.rs), and the symbol classifier of hkid_symbol.rs.              *)
(*                                                                         *)
(* A string is a sequence of Unicode code points (naturals).  An           *)
(* Option<T> is <<>> (None) or <<x>> (Some(x)).  A Result is               *)
(* <<"Ok", v>> or <<"Err", template, argument>>, where the template is the *)
(* message with {} in place of the interpolated string.                    *)
(***************************************************************************)
EXTENDS Integers, Sequences, FiniteSets, TLC

(***************************************************************************)
(* Characters                                                              *)
(***************************************************************************)
UpperAlphabet ==
    <<"A","B","C","D","E","F","G","H","I","J","K","L","M",
      "N","O","P","Q","R","S","T","U","V","W","X","Y","Z">>

LowerAlphabet ==
    <<"a","b","c","d","e","f","g","h","i","j","k","l","m",
      "n","o","p","q","r","s","t","u","v","w","x","y","z">>

DigitAlphabet == <<"0","1","2","3","4","5","6","7","8","9">>

\* Code point of a one-character string.
Ord(ch) ==
    IF \E i \in 1..26 : UpperAlphabet[i] = ch
      THEN 64 + (CHOOSE i \in 1..26 : UpperAlphabet[i] = ch)
    ELSE IF \E i \in 1..26 : LowerAlphabet[i] = ch
      THEN 96 + (CHOOSE i \in 1..26 : LowerAlphabet[i] = ch)
    ELSE IF \E i \in 1..10 : DigitAlphabet[i] = ch
      THEN 47 + (CHOOSE i \in 1..10 : DigitAlphabet[i] = ch)
    ELSE CASE ch = " " -> 32
           [] ch = "#" -> 35
           [] ch = "(" -> 40
           [] ch = ")" -> 41
           [] ch = "*" -> 42
           [] ch = "+" -> 43
           [] ch = "-" -> 45
           [] ch = "<" -> 60
           [] ch = ">" -> 62
           [] ch = "?" -> 63
           [] ch = "@" -> 64
           [] ch = "_" -> 95

\* The string written as a tuple of one-character strings.
Str(t) == [i \in 1..Len(t) |-> Ord(t[i])]

None == <<>>
Some(x) == <<x>>

IsUpper(c) == c >= 65 /\ c <= 90
IsLower(c) == c >= 97 /\ c <= 122
IsDigit(c) == c >= 48 /\ c <= 57

\* char::to_ascii_uppercase
to_ascii_uppercase(c) == IF IsLower(c) THEN c - 32 ELSE c

(***************************************************************************)
(* Check-digit calculator (hkid_check_digit.rs, lib.rs)                    *)
(***************************************************************************)
\* the last weight is a multiple of 11
WEIGHTS_last_11 == <<9, 8, 7, 6, 5, 4, 3, 11>>

WEIGHTS_reversed == <<2, 3, 4, 5, 6, 7, 8, 9>>

WEIGHTS == <<9, 8, 7, 6, 5, 4, 3, 2>>

\* the character is matched as given, without the fold to uppercase
char_to_value_case_sensitive(c) ==
    IF IsUpper(c) THEN Some((c - 65) + 10)
    ELSE IF IsDigit(c) THEN Some(c - 48)
    ELSE IF c = 32 THEN Some(36)
    ELSE None

char_to_value(c) ==
    LET u == to_ascii_uppercase(c) IN
    IF IsUpper(u) THEN Some((u - 65) + 10)
    ELSE IF IsDigit(u) THEN Some(u - 48)
    ELSE IF u = 32 THEN Some(36)
    ELSE None

\* ^[A-Z0-9]{7}$
VALID_HKID_BODY_REGEX_is_match_7_only(s) ==
    /\ Len(s) = 7
    /\ \A i \in 1..Len(s) : IsUpper(s[i]) \/ IsDigit(s[i])

\* ^[A-Z]{1,2}[0-9]{6}$
VALID_HKID_BODY_REGEX_is_match_letter_first_7(s) ==
    /\ Len(s) \in {7, 8}
    /\ \A i \in 1..(Len(s) - 6) : IsUpper(s[i])
    /\ \A i \in (Len(s) - 5)..Len(s) : IsDigit(s[i])

\* ^[A-Z0-9]{6,8}$
VALID_HKID_BODY_REGEX_is_match_6_to_8(s) ==
    /\ Len(s) >= 6
    /\ Len(s) <= 8
    /\ \A i \in 1..Len(s) : IsUpper(s[i]) \/ IsDigit(s[i])

\* ^[A-Z0-9]{7,8}$
VALID_HKID_BODY_REGEX_is_match(s) ==
    /\ Len(s) >= 7
    /\ Len(s) <= 8
    /\ \A i \in 1..Len(s) : IsUpper(s[i]) \/ IsDigit(s[i])

\* the fill is put after the text
pad_right_8(s) ==
    IF Len(s) >= 8 THEN s ELSE s \o [i \in 1..(8 - Len(s)) |-> 32]

\* format!("{:>8}", s): right-aligned in a field of 8, filled with spaces
pad_left_8(s) ==
    IF Len(s) >= 8 THEN s ELSE [i \in 1..(8 - Len(s)) |-> 32] \o s

Min(a, b) == IF a <= b THEN a ELSE b

\* values.iter().zip(WEIGHTS.iter()).map(|(v, w)| v * w).sum::<u32>()
\* (eight products of a value of at most 36 and a weight of at most 9: the
\* u32 sum is at most 1584 and cannot wrap)
RECURSIVE zip_mul_sum(_, _, _)
zip_mul_sum(values, weights, n) ==
    IF n = 0 THEN 0
    ELSE zip_mul_sum(values, weights, n - 1) + values[n] * weights[n]

\* char::from_digit(digit, 10)
from_digit_10(digit) == IF digit < 10 THEN Some(48 + digit) ELSE None

\* sum, check_digit and the final match of calculate_check_digit
check_digit_of_values(values) ==
    LET sum == zip_mul_sum(values, WEIGHTS, Min(Len(values), Len(WEIGHTS)))
        check_digit == (11 - (sum % 11)) % 11
    IN
    IF check_digit = 10 THEN Some(65) ELSE from_digit_10(check_digit)

calculate_check_digit(hkid_body) ==
    IF ~VALID_HKID_BODY_REGEX_is_match(hkid_body) THEN None
    ELSE
      LET padded_body == pad_left_8(hkid_body)
          mapped == [i \in 1..Len(padded_body) |->
                        char_to_value(padded_body[i])]
      IN
      \* collect::<Option<Vec<u32>>>()?
      IF \E i \in 1..Len(mapped) : mapped[i] = None THEN None
      ELSE check_digit_of_values([i \in 1..Len(mapped) |-> mapped[i][1]])

\* HKIDOps::char_to_value: the character is narrowed to u8 before the match
\* the letters are valued from 11
HKIDOps_char_to_value_letters_from_11(c) ==
    LET u == to_ascii_uppercase(c) % 256 IN
    IF IsUpper(u) THEN Some((u - 65) + 11)
    ELSE IF IsDigit(u) THEN Some(u - 48)
    ELSE IF u = 32 THEN Some(36)
    ELSE None

HKIDOps_char_to_value(c) ==
    LET u == to_ascii_uppercase(c) % 256 IN
    IF IsUpper(u) THEN Some((u - 65) + 10)
    ELSE IF IsDigit(u) THEN Some(u - 48)
    ELSE IF u = 32 THEN Some(36)
    ELSE None

HKIDOps_calculate_check_digit(hkid_body) ==
    IF ~VALID_HKID_BODY_REGEX_is_match(hkid_body) THEN None
    ELSE
      LET padded_body == pad_left_8(hkid_body)
          mapped == [i \in 1..Len(padded_body) |->
                        HKIDOps_char_to_value(padded_body[i])]
      IN
      IF \E i \in 1..Len(mapped) : mapped[i] = None THEN None
      ELSE check_digit_of_values([i \in 1..Len(mapped) |-> mapped[i][1]])

(***************************************************************************)
(* Prefix classifier (hkid_prefix.rs)                                      *)
(***************************************************************************)
\* The match arms of HKIDPrefix::parse, in order: the literal of arm i
\* selects the variant named PrefixVariants[i].
PrefixVariants ==
    << <<"A">>, <<"B">>, <<"C">>, <<"D">>, <<"E">>, <<"F">>, <<"G">>,
       <<"H">>, <<"J">>, <<"K">>, <<"L">>, <<"M">>, <<"N">>, <<"P">>,
       <<"R">>, <<"S">>, <<"T">>, <<"V">>, <<"W">>, <<"Y">>, <<"Z">>,
       <<"E","C">>, <<"W","X">>, <<"X","A">>, <<"X","B">>, <<"X","C">>,
       <<"X","D">>, <<"X","E">>, <<"X","G">>, <<"X","H">> >>

UnknownVariant == <<"Unknown">>

\* A prefix value: the variant's name and, for Unknown, the stored text.
Known(name) == [variant |-> name, payload |-> <<>>]
Unknown(text) == [variant |-> UnknownVariant, payload |-> text]

HKIDPrefix_parse_ignore_case(prefix) ==
    LET folded == [j \in 1..Len(prefix) |-> to_ascii_uppercase(prefix[j])] IN
    IF \E i \in 1..Len(PrefixVariants) : Str(PrefixVariants[i]) = folded
      THEN Known(PrefixVariants[CHOOSE i \in 1..Len(PrefixVariants) :
                                    Str(PrefixVariants[i]) = folded])
      ELSE Unknown(prefix)

HKIDPrefix_parse(prefix) ==
    IF \E i \in 1..Len(PrefixVariants) : Str(PrefixVariants[i]) = prefix
      THEN Known(PrefixVariants[CHOOSE i \in 1..Len(PrefixVariants) :
                                    Str(PrefixVariants[i]) = prefix])
      ELSE Unknown(prefix)

is_known_always(p) == TRUE

is_known(p) == p.variant # UnknownVariant

\* the Debug form of every value, Unknown("...") included
as_str_debug(p) ==
    IF p.variant = UnknownVariant
      THEN Str(<<"U","n","k","n","o","w","n">>) \o <<40, 34>> \o p.payload
             \o <<34, 41>>
      ELSE Str(p.variant)

\* Unknown(s) => s.clone(), otherwise the Debug name of the variant
as_str(p) == IF p.variant = UnknownVariant THEN p.payload ELSE Str(p.variant)

\* the arms of the match in to_str, in order: variant and literal
to_str_arms ==
    << <<<<"A">>, Str(<<"A">>)>>, <<<<"B">>, Str(<<"B">>)>>,
       <<<<"C">>, Str(<<"C">>)>>, <<<<"D">>, Str(<<"D">>)>>,
       <<<<"E">>, Str(<<"E">>)>>, <<<<"F">>, Str(<<"F">>)>>,
       <<<<"G">>, Str(<<"G">>)>>, <<<<"H">>, Str(<<"H">>)>>,
       <<<<"J">>, Str(<<"J">>)>>, <<<<"K">>, Str(<<"K">>)>>,
       <<<<"L">>, Str(<<"L">>)>>, <<<<"M">>, Str(<<"M">>)>>,
       <<<<"N">>, Str(<<"N">>)>>, <<<<"P">>, Str(<<"P">>)>>,
       <<<<"R">>, Str(<<"R">>)>>, <<<<"S">>, Str(<<"S">>)>>,
       <<<<"T">>, Str(<<"T">>)>>, <<<<"V">>, Str(<<"V">>)>>,
       <<<<"W">>, Str(<<"W">>)>>, <<<<"Y">>, Str(<<"Y">>)>>,
       <<<<"Z">>, Str(<<"Z">>)>>,
       <<<<"E","C">>, Str(<<"E","C">>)>>, <<<<"W","X">>, Str(<<"W","X">>)>>,
       <<<<"X","A">>, Str(<<"X","A">>)>>, <<<<"X","B">>, Str(<<"X","B">>)>>,
       <<<<"X","C">>, Str(<<"X","C">>)>>, <<<<"X","D">>, Str(<<"X","D">>)>>,
       <<<<"X","E">>, Str(<<"X","E">>)>>, <<<<"X","G">>, Str(<<"X","G">>)>>,
       <<<<"X","H">>, Str(<<"X","H">>)>> >>

\* to_str (deprecated): HKIDPrefix::Unknown(s) => s, a literal otherwise
to_str(p) ==
    IF p.variant = UnknownVariant THEN p.payload
    ELSE to_str_arms[CHOOSE i \in 1..Len(to_str_arms) :
                        to_str_arms[i][1] = p.variant][2]

\* the value is given for the known variants only
get_message_known_only(p) ==
    IF p.variant = UnknownVariant THEN None
    ELSE Some("a description")

\* #[strum(message = "...")] of each known variant, in order
strum_messages ==
    << <<<<"A">>,
         "Original ID cards, issued between 1949 and 1962, most holders born before 1950">>,
       <<<<"B">>,
         "Issued between 1955 and 1960 in city offices">>,
       <<<<"C">>,
         "Issued between 1960 and 1983 in NT offices, mostly HK-born children (1946-1971)">>,
       <<<<"D">>,
         "Issued between 1960 and 1983 at HK Island offices, mostly HK-born children">>,
       <<<<"E">>,
         "Issued between 1955 and 1969 in Kowloon offices, mostly HK-born children (1946-1962)">>,
       <<<<"F">>,
         "First issue of a card commencing from 24 February 2020">>,
       <<<<"G">>,
         "Issued between 1967 and 1983 in Kowloon offices, children born 1956-1971">>,
       <<<<"H">>,
         "Issued between 1979 and 1983 in HK Island offices, children born 1968-1971">>,
       <<<<"J">>,
         "Consular officers">>,
       <<<<"K">>,
         "First issue (1983 - 1990), children born 1972-1979">>,
       <<<<"L">>,
         "Issued between 1983 and 2003 during computer malfunctions, very few holders">>,
       <<<<"M">>,
         "First issue (2011 - 23 Feb 2020)">>,
       <<<<"N">>,
         "Birth registered in Hong Kong after 1 June 2019">>,
       <<<<"P">>,
         "First issue (1990 - 2000), children mostly born July-Dec 1979">>,
       <<<<"R">>,
         "First issue (2000 - 2011)">>,
       <<<<"S">>,
         "Birth registered in Hong Kong (1 Apr 2005 - 31 May 2019)">>,
       <<<<"T">>,
         "Issued between 1983 and 1997 during computer malfunctions, very few holders">>,
       <<<<"V">>,
         "Child under 11 issued \"Document of Identity for Visa Purposes\" (1983 - 2003)">>,
       <<<<"W">>,
         "First issue to foreign laborer/domestic helper (10 Nov 1989 - 1 Jan 2009)">>,
       <<<<"Y">>,
         "Birth registered in Hong Kong (1 Jan 1989 - 31 Mar 2005)">>,
       <<<<"Z">>,
         "Birth registered in Hong Kong (1 Jan 1980 - 31 Dec 1988)">>,
       <<<<"E","C">>,
         "European Community officers and dependents (1993 - 2003)">>,
       <<<<"W","X">>,
         "Foreign laborers/domestic helpers issued since 2 Jan 2009">>,
       <<<<"X","A">>,
         "Persons without Chinese names issued before 27 Mar 1983">>,
       <<<<"X","B">>,
         "Persons without Chinese names issued before 27 Mar 1983">>,
       <<<<"X","C">>,
         "Persons without Chinese names issued before 27 Mar 1983">>,
       <<<<"X","D">>,
         "Persons without Chinese names issued before 27 Mar 1983">>,
       <<<<"X","E">>,
         "Persons without Chinese names issued before 27 Mar 1983">>,
       <<<<"X","G">>,
         "Persons without Chinese names issued before 27 Mar 1983">>,
       <<<<"X","H">>,
         "Persons without Chinese names issued before 27 Mar 1983">> >>

\* EnumMessage::get_message: the message attribute of the value's variant
get_message(p) ==
    IF p.variant = UnknownVariant THEN Some("Unknown or unspecified prefix")
    ELSE Some(strum_messages[CHOOSE i \in 1..Len(strum_messages) :
                                strum_messages[i][1] = p.variant][2])

\* KNOWN_PREFIXES: stringify!() of every variant the macro is given
KNOWN_PREFIXES == [i \in 1..Len(PrefixVariants) |-> Str(PrefixVariants[i])]

(***************************************************************************)
(* Validator (hkid_validator.rs, HKIDOps::validate_hkid)                   *)
(***************************************************************************)
Ok(v) == <<"Ok", v>>
Err(template, argument) == <<"Err", template, argument>>

strip_open_only(s) == SelectSeq(s, LAMBDA c : c # 40)

\* the text is matched as written, parentheses included
strip_nothing(s) == s

\* hkid_full.chars().filter(|&c| c != '(' && c != ')').collect()
strip_parentheses(s) == SelectSeq(s, LAMBDA c : c # 40 /\ c # 41)

\* ^[A-Z]{1,2}$
VALID_PREFIX_REGEX_is_match(s) ==
    /\ Len(s) >= 1
    /\ Len(s) <= 2
    /\ \A i \in 1..Len(s) : IsUpper(s[i])

\* ^([A-Z]{1,2})([0-9]{6})([A-Z0-9])$
full_match_with_any_letter(s, n) ==
    /\ Len(s) = n + 7
    /\ \A i \in 1..n : IsUpper(s[i])
    /\ \A i \in (n + 1)..(n + 6) : IsDigit(s[i])
    /\ (IsUpper(s[n + 7]) \/ IsDigit(s[n + 7]))

\* ^([A-Z]{1,2})([0-9]{6})([A0-9])$ with a prefix group of n letters
full_match_with(s, n) ==
    /\ Len(s) = n + 7
    /\ \A i \in 1..n : IsUpper(s[i])
    /\ \A i \in (n + 1)..(n + 6) : IsDigit(s[i])
    /\ (s[n + 7] = 65 \/ IsDigit(s[n + 7]))

\* the groups cut as if the prefix were always one letter
HKID_FULL_REGEX_captures_one_letter(s) ==
    IF \E n \in 1..2 : full_match_with(s, n)
      THEN Some([prefix |-> SubSeq(s, 1, 1),
                 digits |-> SubSeq(s, 2, 7),
                 provided_digit |-> SubSeq(s, Len(s), Len(s))])
      ELSE None

\* HKID_FULL_REGEX.captures: None, or the three groups of the match (the
\* prefix group is greedy)
HKID_FULL_REGEX_captures(s) ==
    IF \E n \in 1..2 : full_match_with(s, n)
      THEN LET n == IF full_match_with(s, 2) THEN 2 ELSE 1 IN
           Some([prefix |-> SubSeq(s, 1, n),
                 digits |-> SubSeq(s, n + 1, n + 6),
                 provided_digit |-> SubSeq(s, n + 7, n + 7)])
      ELSE None

validate_hkid(hkid_full, must_exist_in_enum) ==
    LET cleaned == strip_parentheses(hkid_full)
        caps == HKID_FULL_REGEX_captures(cleaned)
    IN
    IF caps = None
      THEN Err("Invalid HKID format: incorrect structure.", <<>>)
    ELSE
      LET prefix == caps[1].prefix
          digits == caps[1].digits
          provided_digit == caps[1].provided_digit
      IN
      IF must_exist_in_enum /\ ~is_known(HKIDPrefix_parse(prefix))
        THEN Err("Prefix '{}' is not recognized.", prefix)
      ELSE
        LET hkid_body == prefix \o digits
            calculated_digit == calculate_check_digit(hkid_body)
        IN
        IF calculated_digit = None
          THEN Err("Failed to calculate check digit", <<>>)
        ELSE IF Len(provided_digit) = 0
          THEN Err("Missing check digit", <<>>)
        ELSE Ok(calculated_digit[1] = provided_digit[1])

HKIDOps_validate_hkid(hkid_full, must_exist_in_enum) ==
    LET cleaned == strip_parentheses(hkid_full)
        caps == HKID_FULL_REGEX_captures(cleaned)
    IN
    IF caps = None
      THEN Err("Invalid HKID format: incorrect structure.", <<>>)
    ELSE
      LET prefix == caps[1].prefix
          digits == caps[1].digits
          provided_digit == caps[1].provided_digit
      IN
      IF must_exist_in_enum /\ ~is_known(HKIDPrefix_parse(prefix))
        THEN Err("Prefix '{}' is not recognized.", prefix)
      ELSE
        LET hkid_body == prefix \o digits
            calculated_digit == HKIDOps_calculate_check_digit(hkid_body)
        IN
        IF calculated_digit = None
          THEN Err("Failed to calculate check digit", <<>>)
        ELSE IF Len(provided_digit) = 0
          THEN Err("Missing check digit", <<>>)
        ELSE Ok(calculated_digit[1] = provided_digit[1])

(***************************************************************************)
(* Generator (hkid_generator.rs, HKIDOps::generate_hkid)                   *)
(*                                                                         *)
(* The draws of the random source are the record rng:                      *)
(*   index   the position chosen in the table of known prefixes (0-based), *)
(*   one     the boolean that selects a prefix of one letter,              *)
(*   letters the two letters drawn for a random prefix (0..25 each),       *)
(*   digits  the six digits drawn (0..9 each).                             *)
(***************************************************************************)
\* HKIDPrefix::iter(): every variant in declaration order, Unknown with the
\* default (empty) string last
HKIDPrefix_iter ==
    [i \in 1..(Len(PrefixVariants) + 1) |->
        IF i <= Len(PrefixVariants) THEN Known(PrefixVariants[i])
                                     ELSE Unknown(<<>>)]

\* the letters start at 'B'
random_uppercase_letter_from_B(n) == 66 + n

\* 'A' + n, for n drawn from 0..25
random_uppercase_letter(n) == 65 + n

random_known_prefix(rng) ==
    LET known == SelectSeq(HKIDPrefix_iter, is_known)
        valid_prefixes == [i \in 1..Len(known) |-> as_str(known[i])]
    IN
    IF Len(valid_prefixes) = 0 THEN None
    ELSE Some(valid_prefixes[rng.index + 1])

random_prefix(rng) ==
    LET len == IF rng.one THEN 1 ELSE 2 IN
    [i \in 1..len |-> random_uppercase_letter(rng.letters[i])]

\* (0..6).map(|_| rng.random_range(0..10).to_string()).collect::<String>()
random_digits(rng) == [i \in 1..6 |-> 48 + rng.digits[i]]

\* The end of generate_hkid: the check digit's failure is an error, else
\* format!("{hkid_body}({check_digit})")
format_hkid(hkid_body, check_digit) ==
    IF check_digit = None THEN Err("Failed to calculate check digit", <<>>)
    ELSE Ok(hkid_body \o <<40, check_digit[1], 41>>)

\* digits, hkid_body and check_digit of the free generate_hkid
finish_generate(prefix_str, rng) ==
    LET hkid_body == prefix_str \o random_digits(rng) IN
    format_hkid(hkid_body, calculate_check_digit(hkid_body))

generate_hkid(prefix, must_exist_in_enum, rng) ==
    IF prefix # None /\ must_exist_in_enum THEN
      LET px == prefix[1]
          parsed_prefix == HKIDPrefix_parse(px)
      IN
      IF ~is_known(parsed_prefix)
        THEN Err("Prefix '{}' is not recognized", px)
        ELSE finish_generate(as_str(parsed_prefix), rng)
    ELSE IF prefix # None THEN
      finish_generate(as_str(HKIDPrefix_parse(prefix[1])), rng)
    ELSE IF must_exist_in_enum THEN
      LET chosen == random_known_prefix(rng) IN
      IF chosen = None
        THEN Err("No valid prefixes in HKIDPrefix enum", <<>>)
        ELSE finish_generate(chosen[1], rng)
    ELSE finish_generate(random_prefix(rng), rng)

\* digits, hkid_body and check_digit of HKIDOps::generate_hkid
HKIDOps_finish_generate(prefix_str, rng) ==
    LET hkid_body == prefix_str \o random_digits(rng) IN
    format_hkid(hkid_body, HKIDOps_calculate_check_digit(hkid_body))

\* the choice is made among every two-letter text that begins with 'X'
HKIDOps_random_known_prefix_any_X(rng) ==
    Some(<<88, 65 + (rng.index % 26)>>)

\* KNOWN_PREFIXES[fastrand::usize(..KNOWN_PREFIXES.len())]
HKIDOps_random_known_prefix(rng) ==
    Some(KNOWN_PREFIXES[rng.index + 1])

HKIDOps_random_prefix(rng) ==
    LET len == IF rng.one THEN 1 ELSE 2 IN
    [i \in 1..len |-> random_uppercase_letter(rng.letters[i])]

HKIDOps_generate_hkid(prefix, must_exist_in_enum, rng) ==
    IF prefix # None /\ ~VALID_PREFIX_REGEX_is_match(prefix[1]) THEN
      Err("Prefix '{}' is not a valid HKID prefix format (must be 1 or 2 uppercase letters)",
          prefix[1])
    ELSE IF /\ prefix # None
            /\ must_exist_in_enum
            /\ ~is_known(HKIDPrefix_parse(prefix[1])) THEN
      Err("Prefix '{}' is not recognized", prefix[1])
    ELSE IF prefix # None THEN
      HKIDOps_finish_generate(as_str(HKIDPrefix_parse(prefix[1])), rng)
    ELSE IF must_exist_in_enum THEN
      LET chosen == HKIDOps_random_known_prefix(rng) IN
      IF chosen = None
        THEN Err("No valid prefixes in HKIDPrefix enum", <<>>)
        ELSE HKIDOps_finish_generate(chosen[1], rng)
    ELSE HKIDOps_finish_generate(HKIDOps_random_prefix(rng), rng)

\* The generators of a build whose prefix enum lists the known variants
\* `variants` (the table the macro of hkid_prefixes_macro.rs is given).

\* valid_prefixes.choose(rng): None of an empty list, else one element
random_known_prefix_among(variants, rng) ==
    LET iter == [i \in 1..(Len(variants) + 1) |->
                    IF i <= Len(variants) THEN Known(variants[i])
                                          ELSE Unknown(<<>>)]
        known == SelectSeq(iter, is_known)
        valid_prefixes == [i \in 1..Len(known) |-> as_str(known[i])]
    IN
    IF Len(valid_prefixes) = 0 THEN None
    ELSE Some(valid_prefixes[(rng.index % Len(valid_prefixes)) + 1])

\* the (None, true) arm of the free generate_hkid
generate_hkid_among(variants, rng) ==
    LET chosen == random_known_prefix_among(variants, rng) IN
    IF chosen = None
      THEN Err("No valid prefixes in HKIDPrefix enum", <<>>)
      ELSE finish_generate(chosen[1], rng)

\* fastrand::usize(..KNOWN_PREFIXES.len()) panics on the empty range ..0
HKIDOps_random_known_prefix_panics(variants) == Len(variants) = 0

\* Some(KNOWN_PREFIXES[idx]), for a table that is not empty
HKIDOps_random_known_prefix_among(variants, rng) ==
    Some(Str(variants[(rng.index % Len(variants)) + 1]))

\* the (None, true) arm of HKIDOps::generate_hkid, when the draw returns
HKIDOps_generate_hkid_among(variants, rng) ==
    LET chosen == HKIDOps_random_known_prefix_among(variants, rng) IN
    IF chosen = None
      THEN Err("No valid prefixes in HKIDPrefix enum", <<>>)
      ELSE HKIDOps_finish_generate(chosen[1], rng)

(***************************************************************************)
(* Symbol classifier (hkid_symbol.rs)                                      *)
(*                                                                         *)
(* A symbol value is a record: the variant's name and its payload, <<>>    *)
(* for a fixed variant, the text for IssuingOfficeCode and Unknown, and    *)
(* <<n>> for LostCard(n).                                                  *)
(***************************************************************************)
HKIDSymbol_fixed(name) == [variant |-> name, payload |-> <<>>]
HKIDSymbol_IssuingOfficeCode(text) ==
    [variant |-> "IssuingOfficeCode", payload |-> text]
HKIDSymbol_LostCard(times) == [variant |-> "LostCard", payload |-> <<times>>]
HKIDSymbol_Unknown(text) == [variant |-> "Unknown", payload |-> text]

\* the W and X arms exchanged
HKIDSymbol_parse_arms_W_X_exchanged ==
    << <<Str(<<"*","*","*">>), "AdultEligibleReentryPermit">>,
       <<Str(<<"*">>), "YouthEligibleReentryPermit">>,
       <<Str(<<"A">>), "RightOfAbode">>,
       <<Str(<<"B">>), "BirthDateOrPlaceChanged">>,
       <<Str(<<"C">>), "StayLimitedByImmigration">>,
       <<Str(<<"N">>), "NameChanged">>,
       <<Str(<<"O">>), "BornOutsideHKChinaMacau">>,
       <<Str(<<"R">>), "RightToLand">>,
       <<Str(<<"U">>), "StayUnlimitedByImmigration">>,
       <<Str(<<"W">>), "BornInMainlandChina">>,
       <<Str(<<"X">>), "BornInMacau">>,
       <<Str(<<"Y">>), "BirthDateConfirmed">>,
       <<Str(<<"Z">>), "BornInHongKong">> >>

\* the literal arms of the match in HKIDSymbol::parse, in order
HKIDSymbol_parse_arms ==
    << <<Str(<<"*","*","*">>), "AdultEligibleReentryPermit">>,
       <<Str(<<"*">>), "YouthEligibleReentryPermit">>,
       <<Str(<<"A">>), "RightOfAbode">>,
       <<Str(<<"B">>), "BirthDateOrPlaceChanged">>,
       <<Str(<<"C">>), "StayLimitedByImmigration">>,
       <<Str(<<"N">>), "NameChanged">>,
       <<Str(<<"O">>), "BornOutsideHKChinaMacau">>,
       <<Str(<<"R">>), "RightToLand">>,
       <<Str(<<"U">>), "StayUnlimitedByImmigration">>,
       <<Str(<<"W">>), "BornInMacau">>,
       <<Str(<<"X">>), "BornInMainlandChina">>,
       <<Str(<<"Y">>), "BirthDateConfirmed">>,
       <<Str(<<"Z">>), "BornInHongKong">> >>

\* props(Symbol = "...") of each variant: get_str("Symbol")
get_str_Symbol(symbol) ==
    CASE symbol.variant = "AdultEligibleReentryPermit" -> Str(<<"*","*","*">>)
      [] symbol.variant = "YouthEligibleReentryPermit" -> Str(<<"*">>)
      [] symbol.variant = "RightOfAbode" -> Str(<<"A">>)
      [] symbol.variant = "BirthDateOrPlaceChanged" -> Str(<<"B">>)
      [] symbol.variant = "StayLimitedByImmigration" -> Str(<<"C">>)
      [] symbol.variant = "NameChanged" -> Str(<<"N">>)
      [] symbol.variant = "BornOutsideHKChinaMacau" -> Str(<<"O">>)
      [] symbol.variant = "RightToLand" -> Str(<<"R">>)
      [] symbol.variant = "StayUnlimitedByImmigration" -> Str(<<"U">>)
      [] symbol.variant = "BornInMacau" -> Str(<<"W">>)
      [] symbol.variant = "BornInMainlandChina" -> Str(<<"X">>)
      [] symbol.variant = "BirthDateConfirmed" -> Str(<<"Y">>)
      [] symbol.variant = "BornInHongKong" -> Str(<<"Z">>)
      [] symbol.variant = "IssuingOfficeCode"
           -> <<60>> \o Str(<<"O","f","f","i","c","e"," ","C","o","d","e">>)
                \o <<62>>
      [] symbol.variant = "LostCard" -> <<60, 76, 35, 62>>
      [] OTHER
           -> <<60>> \o Str(<<"U","n","k","n","o","w","n">>) \o <<62>>

\* the number of bytes of a character's UTF-8 encoding
len_utf8(c) ==
    IF c < 128 THEN 1 ELSE IF c < 2048 THEN 2 ELSE IF c < 65536 THEN 3 ELSE 4

\* str::len(): the length of the text in bytes
RECURSIVE str_len(_)
str_len(s) == IF s = <<>> THEN 0 ELSE len_utf8(Head(s)) + str_len(Tail(s))

\* s.chars().nth(n)
chars_nth(s, n) == IF n + 1 <= Len(s) THEN Some(s[n + 1]) ELSE None

\* the digits of <u16 as FromStr>: the value may reach 65535
RECURSIVE from_str_digits_u16(_, _)
from_str_digits_u16(s, acc) ==
    IF s = <<>> THEN Some(acc)
    ELSE IF ~IsDigit(Head(s)) THEN None
    ELSE LET v == acc * 10 + (Head(s) - 48) IN
         IF v > 65535 THEN None ELSE from_str_digits_u16(Tail(s), v)

\* the digits of <u8 as FromStr>::from_str: checked multiply and add, an
\* error on the first character that is no ASCII digit or on overflow
RECURSIVE from_str_digits(_, _)
from_str_digits(s, acc) ==
    IF s = <<>> THEN Some(acc)
    ELSE IF ~IsDigit(Head(s)) THEN None
    ELSE LET v == acc * 10 + (Head(s) - 48) IN
         IF v > 255 THEN None ELSE from_str_digits(Tail(s), v)

\* str::parse::<u8>(): an optional '+', then at least one digit
parse_u8(s) ==
    LET digits == IF s # <<>> /\ Head(s) = 43 THEN Tail(s) ELSE s IN
    IF digits = <<>> THEN None ELSE from_str_digits(digits, 0)

\* the literal arm of the match that the text equals, if one does
literal_arm(s) ==
    LET hits == {i \in 1..Len(HKIDSymbol_parse_arms) :
                    HKIDSymbol_parse_arms[i][1] = s} IN
    IF hits = {} THEN None
    ELSE Some(HKIDSymbol_parse_arms[CHOOSE i \in hits : TRUE][2])

\* the guard of the first guarded arm
lost_card_guard(s) == s # <<>> /\ Head(s) = 76 /\ str_len(s) > 1

\* HKIDSymbol::parse reaches the unwrap() of the second guarded arm with
\* chars().nth(1) being None: the call panics
HKIDSymbol_parse_panics(s) ==
    /\ literal_arm(s) = None
    /\ ~lost_card_guard(s)
    /\ str_len(s) = 2
    /\ chars_nth(s, 1) = None

\* HKIDSymbol::parse, for the texts on which it returns
HKIDSymbol_parse(symbol) ==
    IF literal_arm(symbol) # None
      THEN HKIDSymbol_fixed(literal_arm(symbol)[1])
    ELSE IF lost_card_guard(symbol)
      THEN IF parse_u8(Tail(symbol)) # None
             THEN HKIDSymbol_LostCard(parse_u8(Tail(symbol))[1])
             ELSE HKIDSymbol_Unknown(symbol)
    ELSE IF str_len(symbol) = 2 /\ IsDigit(chars_nth(symbol, 1)[1])
      THEN HKIDSymbol_IssuingOfficeCode(symbol)
    ELSE HKIDSymbol_Unknown(symbol)

(***************************************************************************)
(* Inputs                                                                  *)
(***************************************************************************)
\* The digit strings tried are the six-digit numerals of 0, 123456,
\* 246912, ... (MaxSample + 1 of them).
MaxSample == 2

SampleNumbers == {(k * 123456) % 1000000 : k \in 0..MaxSample}

\* The six decimal digits of n, most significant first.
DigitsOf(n) ==
    << (n \div 100000) % 10, (n \div 10000) % 10, (n \div 1000) % 10,
       (n \div 100) % 10, (n \div 10) % 10, n % 10 >>

DigitDraws == {DigitsOf(n) : n \in SampleNumbers}

WellFormedDigitTexts == {[i \in 1..6 |-> 48 + d[i]] : d \in DigitDraws}

MalformedDigitTexts ==
    { <<>>,
      Str(<<"Z","9","Z","9","Z","9">>),
      Str(<<"1","2","3","4","5">>),
      Str(<<"1","2","3","4","5","_">>),
      Str(<<"1","2","3","4","5","-">>),
      Str(<<"1","2","3","4","5","6","7">>) }

DigitTexts == WellFormedDigitTexts \cup MalformedDigitTexts

SingleLetterTexts == {<<65 + n>> : n \in 0..25}

KnownPrefixTexts == {KNOWN_PREFIXES[i] : i \in 1..Len(KNOWN_PREFIXES)}

UnknownDoubleTexts ==
    { Str(<<"Z","Z">>), Str(<<"X","X">>), Str(<<"P","B">>),
      Str(<<"A","B">>), Str(<<"C","E">>) }

MalformedPrefixTexts ==
    { <<>>, Str(<<"a">>), Str(<<"1">>), Str(<<"A","1">>), Str(<<"1","A">>),
      Str(<<"A","B","C">>), Str(<<"e","c">>), Str(<<"E","c">>),
      Str(<<" ","A">>), Str(<<"_">>) }

PrefixTexts ==
    SingleLetterTexts \cup KnownPrefixTexts \cup UnknownDoubleTexts
        \cup MalformedPrefixTexts

CheckTexts ==
    {<<48 + d>> : d \in 0..9} \cup
    { Str(<<"A">>), Str(<<"B">>), Str(<<"a">>), <<>> }

\* The ways a full HKID is written from its prefix p, digits d and check
\* character c.
Forms == {"plain", "wrapped", "prefix_wrapped", "digits_wrapped"}

Written(form, p, d, c) ==
    CASE form = "plain" -> p \o d \o c
      [] form = "wrapped" -> p \o d \o <<40>> \o c \o <<41>>
      [] form = "prefix_wrapped" ->
            <<40>> \o p \o <<41>> \o d \o <<40>> \o c \o <<41>>
      [] form = "digits_wrapped" -> p \o <<40>> \o d \o <<41>> \o c

\* prefixes with U+0141, U+0120 and U+0131, whose low 8 bits are the codes
\* of 'A', ' ' and '1'
NonAsciiPrefixTexts == {<<321>>, <<65, 321>>, <<321, 66>>, <<288, 65>>, <<305>>}

\* bodies as callers write them, one-letter bodies already padded, and
\* bodies with characters outside ASCII
BodyInputs ==
    {p \o d : p \in PrefixTexts, d \in DigitTexts}
      \cup {<<32>> \o p \o d : p \in SingleLetterTexts,
                                d \in WellFormedDigitTexts}
      \cup {p \o d : p \in NonAsciiPrefixTexts, d \in WellFormedDigitTexts}

FullInputs ==
    {Written(f, p, d, c) :
        f \in Forms, p \in PrefixTexts, d \in DigitTexts, c \in CheckTexts}
      \cup {Written("wrapped", p, d, c) :
              p \in NonAsciiPrefixTexts, d \in WellFormedDigitTexts,
              c \in CheckTexts}

PrefixArguments == {None} \cup {Some(p) : p \in PrefixTexts}

Implementations == {"free", "HKIDOps"}

\* a text in lowercase
to_lowercase(t) == [i \in 1..Len(t) |-> IF IsUpper(t[i]) THEN t[i] + 32 ELSE t[i]]

\* The texts given to HKIDPrefix::parse: those above, every known code in
\* lowercase, the two-letter codes in mixed case, and texts outside ASCII.
PrefixParseInputs ==
    PrefixTexts
      \cup {to_lowercase(k) : k \in KnownPrefixTexts}
      \cup {<<k[1], k[2] + 32>> : k \in {t \in KnownPrefixTexts : Len(t) = 2}}
      \cup {<<k[1] + 32, k[2]>> : k \in {t \in KnownPrefixTexts : Len(t) = 2}}
      \cup {<<233>>, <<65, 233>>, Str(<<"A"," ">>), Str(<<"E","C","A">>),
             Str(<<"Z","Z">>)}

\* The prefix values: every known variant and Unknown of every text.
PrefixValues ==
    {Known(PrefixVariants[i]) : i \in 1..Len(PrefixVariants)}
      \cup {Unknown(t) : t \in PrefixParseInputs}

\* The characters given to char_to_value: every code point up to
\* MaxCodePoint, and U+4E2D, U+1F600 and U+10FFFF.
MaxCodePoint == 400

CharInputs == (0..MaxCodePoint) \cup {20013, 128512, 1114111}

\* The known-prefix tables tried: the table of the crate, the empty table
\* and two short ones.
PrefixTables ==
    {SubSeq(PrefixVariants, 1, n) : n \in {0, 1, 2, Len(PrefixVariants)}}

\* The lost-card counts tried are 0..MaxLostCount.
MaxLostCount == 300

\* The decimal numeral of n.
RECURSIVE DecimalText(_)
DecimalText(n) ==
    IF n < 10 THEN <<48 + n>>
    ELSE DecimalText(n \div 10) \o <<48 + (n % 10)>>

\* '*', '+', '0', '1', '9', 'A', 'H', 'L', 'Z', 'a', and two characters
\* outside ASCII: U+00E9 (2 bytes in UTF-8) and U+4E2D (3 bytes)
SymbolAlphabet == {42, 43, 48, 49, 57, 65, 72, 76, 90, 97, 233, 20013}

ShortSymbolTexts == UNION {[1..n -> SymbolAlphabet] : n \in 0..3}

LostCardTexts ==
    {<<76>> \o DecimalText(n) : n \in 0..MaxLostCount}
      \cup { Str(<<"L","0","0","7">>), Str(<<"L","0","2","5","5">>),
             Str(<<"L","0","2","5","6">>), <<76, 43, 50, 53, 53>>,
             <<76, 43, 50, 53, 54>>, Str(<<"L","-","1">>),
             Str(<<"L","a","b">>), Str(<<"L","1","a">>),
             Str(<<"L"," ","1">>) }

OtherSymbolTexts ==
    {HKIDSymbol_parse_arms[i][1] : i \in 1..Len(HKIDSymbol_parse_arms)}
      \cup { Str(<<"H","1">>), Str(<<"K","2">>), Str(<<"S","9">>),
             Str(<<"H","F">>), Str(<<"X","Y","Z">>), Str(<<"Q">>),
             Str(<<"Q","X">>), Str(<<"h","1">>), Str(<<"H","1","2">>),
             <<63, 63>> }

SymbolInputs == ShortSymbolTexts \cup LostCardTexts \cup OtherSymbolTexts

(***************************************************************************)
(* State: one call of one operation.  req is the call (operation,          *)
(* implementation and arguments), pc its position and ret what it          *)
(* returned.  cell holds the lazily compiled patterns and thread the       *)
(* concurrent callers that force them; a single call finds them compiled.  *)
(***************************************************************************)
VARIABLES pc, req, ret, cell, thread

vars == <<pc, req, ret, cell, thread>>

\* The callers that run concurrently are 1..MaxThreads.
MaxThreads == 2

Threads == 1..MaxThreads

\* the five lazy statics: those of lib.rs and those of hkid_ops.rs
Matchers ==
    {"VALID_HKID_BODY_REGEX", "HKID_FULL_REGEX", "HKIDOps_VALID_PREFIX_REGEX",
     "HKIDOps_VALID_HKID_BODY_REGEX", "HKIDOps_HKID_FULL_REGEX"}

\* the statics an operation dereferences, in order
matchers_of(op) ==
    CASE op = "calculate_check_digit" -> <<"VALID_HKID_BODY_REGEX">>
      [] op = "validate_hkid" -> <<"HKID_FULL_REGEX", "VALID_HKID_BODY_REGEX">>
      [] op = "generate_hkid" -> <<"VALID_HKID_BODY_REGEX">>
      [] op = "HKIDOps_calculate_check_digit"
           -> <<"HKIDOps_VALID_HKID_BODY_REGEX">>
      [] op = "HKIDOps_validate_hkid"
           -> <<"HKIDOps_HKID_FULL_REGEX", "HKIDOps_VALID_HKID_BODY_REGEX">>
      [] op = "HKIDOps_generate_hkid"
           -> <<"HKIDOps_VALID_PREFIX_REGEX", "HKIDOps_VALID_HKID_BODY_REGEX">>

LazyOperations ==
    {"calculate_check_digit", "validate_hkid", "generate_hkid",
     "HKIDOps_calculate_check_digit", "HKIDOps_validate_hkid",
     "HKIDOps_generate_hkid"}

\* a cell before its first use, and once its initializer has run
UninitCell == [state |-> "uninit", inits |-> 0]
ReadyCell == [state |-> "ready", inits |-> 1]

IdleThread == [at |-> "idle", todo |-> <<>>, seen |-> {}]

\* the initializer is started by whoever finds the cell not ready
may_begin_init_unguarded(state) == state # "ready"

\* Lazy::force: the initializer is started by the one caller that finds
\* the cell uninitialized
may_begin_init(state) == state = "uninit"

\* Deref of a Lazy: a caller reads the value once the cell is ready, and
\* waits while another caller runs the initializer
may_read(state) == state = "ready"

Request(op, impl, text, prefix, flag) ==
    [op |-> op, impl |-> impl, text |-> text, prefix |-> prefix,
     must_exist_in_enum |-> flag]

\* a call of char_to_value
CharRequest(op, impl, c) == [op |-> op, impl |-> impl, c |-> c]

\* a call of generate_hkid(None, true) in a build with the given table
TableRequest(op, impl, variants) ==
    [op |-> op, impl |-> impl, variants |-> variants]

\* a call of a method of a value
MethodRequest(op, self) == [op |-> op, impl |-> "free", self |-> self]

Init ==
    /\ pc = "called"
    /\ ret = <<>>
    /\ cell = [m \in Matchers |-> ReadyCell]
    /\ thread = [t \in Threads |-> IdleThread]
    /\ \/ \E impl \in Implementations, body \in BodyInputs :
            req = Request("calculate_check_digit", impl, body, None, FALSE)
       \/ \E impl \in Implementations, full \in FullInputs, m \in BOOLEAN :
            req = Request("validate_hkid", impl, full, None, m)
       \/ \E impl \in Implementations, p \in PrefixArguments, m \in BOOLEAN :
            req = Request("generate_hkid", impl, <<>>, p, m)
       \/ \E impl \in Implementations, c \in CharInputs :
            req = CharRequest("char_to_value", impl, c)
       \/ \E impl \in Implementations, variants \in PrefixTables :
            req = TableRequest("generate_hkid_among", impl, variants)
       \/ \E prefix \in PrefixParseInputs :
            req = Request("HKIDPrefix_parse", "free", prefix, None, FALSE)
       \/ \E self \in PrefixValues, op \in {"as_str", "to_str", "get_message"} :
            req = MethodRequest(op, self)
       \/ \E symbol \in SymbolInputs :
            req = Request("HKIDSymbol_parse", "free", symbol, None, FALSE)

CalculateCheckDigit ==
    /\ pc = "called"
    /\ req.op = "calculate_check_digit"
    /\ req.impl = "free"
    /\ ret' = calculate_check_digit(req.text)
    /\ pc' = "returned"
    /\ UNCHANGED <<req, cell, thread>>

HKIDOpsCalculateCheckDigit ==
    /\ pc = "called"
    /\ req.op = "calculate_check_digit"
    /\ req.impl = "HKIDOps"
    /\ ret' = HKIDOps_calculate_check_digit(req.text)
    /\ pc' = "returned"
    /\ UNCHANGED <<req, cell, thread>>

ValidateHkid ==
    /\ pc = "called"
    /\ req.op = "validate_hkid"
    /\ req.impl = "free"
    /\ ret' = validate_hkid(req.text, req.must_exist_in_enum)
    /\ pc' = "returned"
    /\ UNCHANGED <<req, cell, thread>>

HKIDOpsValidateHkid ==
    /\ pc = "called"
    /\ req.op = "validate_hkid"
    /\ req.impl = "HKIDOps"
    /\ ret' = HKIDOps_validate_hkid(req.text, req.must_exist_in_enum)
    /\ pc' = "returned"
    /\ UNCHANGED <<req, cell, thread>>

\* The draws the random source can make for a call: only the draws the
\* call consumes vary.
Draws(prefix, flag) ==
    { [index |-> i, one |-> o, letters |-> l, digits |-> d] :
        i \in (IF prefix = None /\ flag
                 THEN 0..(Len(KNOWN_PREFIXES) - 1) ELSE {0}),
        o \in (IF prefix = None /\ ~flag THEN BOOLEAN ELSE {TRUE}),
        l \in (IF prefix = None /\ ~flag
                 THEN (0..25) \X (0..25) ELSE {<<0, 0>>}),
        d \in DigitDraws }

GenerateHkid ==
    /\ pc = "called"
    /\ req.op = "generate_hkid"
    /\ req.impl = "free"
    /\ \E rng \in Draws(req.prefix, req.must_exist_in_enum) :
          ret' = generate_hkid(req.prefix, req.must_exist_in_enum, rng)
    /\ pc' = "returned"
    /\ UNCHANGED <<req, cell, thread>>

HKIDOpsGenerateHkid ==
    /\ pc = "called"
    /\ req.op = "generate_hkid"
    /\ req.impl = "HKIDOps"
    /\ \E rng \in Draws(req.prefix, req.must_exist_in_enum) :
          ret' = HKIDOps_generate_hkid(req.prefix, req.must_exist_in_enum, rng)
    /\ pc' = "returned"
    /\ UNCHANGED <<req, cell, thread>>

GenerateHkidAmong ==
    /\ pc = "called"
    /\ req.op = "generate_hkid_among"
    /\ req.impl = "free"
    /\ \E rng \in Draws(None, TRUE) :
          ret' = generate_hkid_among(req.variants, rng)
    /\ pc' = "returned"
    /\ UNCHANGED <<req, cell, thread>>

\* the call returns, or panics in random_known_prefix
HKIDOpsGenerateHkidAmong ==
    /\ pc = "called"
    /\ req.op = "generate_hkid_among"
    /\ req.impl = "HKIDOps"
    /\ IF HKIDOps_random_known_prefix_panics(req.variants)
         THEN pc' = "panicked" /\ ret' = ret
         ELSE /\ pc' = "returned"
              /\ \E rng \in Draws(None, TRUE) :
                    ret' = HKIDOps_generate_hkid_among(req.variants, rng)
    /\ UNCHANGED <<req, cell, thread>>

CharToValue ==
    /\ pc = "called"
    /\ req.op = "char_to_value"
    /\ req.impl = "free"
    /\ ret' = char_to_value(req.c)
    /\ pc' = "returned"
    /\ UNCHANGED <<req, cell, thread>>

HKIDOpsCharToValue ==
    /\ pc = "called"
    /\ req.op = "char_to_value"
    /\ req.impl = "HKIDOps"
    /\ ret' = HKIDOps_char_to_value(req.c)
    /\ pc' = "returned"
    /\ UNCHANGED <<req, cell, thread>>

HKIDPrefixParse ==
    /\ pc = "called"
    /\ req.op = "HKIDPrefix_parse"
    /\ ret' = HKIDPrefix_parse(req.text)
    /\ pc' = "returned"
    /\ UNCHANGED <<req, cell, thread>>

AsStr ==
    /\ pc = "called"
    /\ req.op = "as_str"
    /\ ret' = as_str(req.self)
    /\ pc' = "returned"
    /\ UNCHANGED <<req, cell, thread>>

ToStr ==
    /\ pc = "called"
    /\ req.op = "to_str"
    /\ ret' = to_str(req.self)
    /\ pc' = "returned"
    /\ UNCHANGED <<req, cell, thread>>

GetMessage ==
    /\ pc = "called"
    /\ req.op = "get_message"
    /\ ret' = get_message(req.self)
    /\ pc' = "returned"
    /\ UNCHANGED <<req, cell, thread>>

\* HKIDSymbol::parse: the call returns a symbol value or panics
HKIDSymbolParse ==
    /\ pc = "called"
    /\ req.op = "HKIDSymbol_parse"
    /\ IF HKIDSymbol_parse_panics(req.text)
         THEN pc' = "panicked" /\ ret' = ret
         ELSE pc' = "returned" /\ ret' = HKIDSymbol_parse(req.text)
    /\ UNCHANGED <<req, cell, thread>>

Next ==
    \/ CalculateCheckDigit
    \/ HKIDOpsCalculateCheckDigit
    \/ ValidateHkid
    \/ HKIDOpsValidateHkid
    \/ GenerateHkid
    \/ HKIDOpsGenerateHkid
    \/ GenerateHkidAmong
    \/ HKIDOpsGenerateHkidAmong
    \/ CharToValue
    \/ HKIDOpsCharToValue
    \/ HKIDPrefixParse
    \/ AsStr
    \/ ToStr
    \/ GetMessage
    \/ HKIDSymbolParse

Spec == Init /\ [][Next]_vars

(***************************************************************************)
(* Concurrent first use of the patterns: every caller starts an operation, *)
(* dereferences the statics it uses one after the other, and returns.      *)
(***************************************************************************)
LazyInit ==
    /\ pc = "idle"
    /\ req = <<>>
    /\ ret = <<>>
    /\ cell = [m \in Matchers |-> UninitCell]
    /\ thread = [t \in Threads |-> IdleThread]

\* a caller enters an operation
LazyCall ==
    \E t \in Threads, op \in LazyOperations :
        /\ thread[t].at = "idle"
        /\ thread' = [thread EXCEPT ![t].at = "deref",
                                    ![t].todo = matchers_of(op)]
        /\ UNCHANGED <<pc, req, ret, cell>>

\* the caller starts the initializer Regex::new(PATTERN).unwrap()
LazyBeginInit ==
    \E t \in Threads :
        /\ thread[t].at = "deref"
        /\ thread[t].todo # <<>>
        /\ may_begin_init(cell[Head(thread[t].todo)].state)
        /\ cell' = [cell EXCEPT ![Head(thread[t].todo)].state = "running"]
        /\ thread' = [thread EXCEPT ![t].at = "init"]
        /\ UNCHANGED <<pc, req, ret>>

\* the initializer returns and the compiled pattern is stored
LazyFinishInit ==
    \E t \in Threads :
        /\ thread[t].at = "init"
        /\ cell' = [cell EXCEPT
                      ![Head(thread[t].todo)] =
                          [state |-> "ready",
                           inits |-> cell[Head(thread[t].todo)].inits + 1]]
        /\ thread' = [thread EXCEPT ![t].at = "deref"]
        /\ UNCHANGED <<pc, req, ret>>

\* the caller matches against the pattern
LazyRead ==
    \E t \in Threads :
        /\ thread[t].at = "deref"
        /\ thread[t].todo # <<>>
        /\ may_read(cell[Head(thread[t].todo)].state)
        /\ thread' = [thread EXCEPT
                        ![t].todo = Tail(thread[t].todo),
                        ![t].seen = thread[t].seen
                                      \cup {cell[Head(thread[t].todo)]}]
        /\ UNCHANGED <<pc, req, ret, cell>>

\* the operation returns
LazyReturn ==
    \E t \in Threads :
        /\ thread[t].at = "deref"
        /\ thread[t].todo = <<>>
        /\ thread' = [thread EXCEPT ![t] = IdleThread]
        /\ UNCHANGED <<pc, req, ret, cell>>

LazyNext ==
    \/ LazyCall
    \/ LazyBeginInit
    \/ LazyFinishInit
    \/ LazyRead
    \/ LazyReturn

LazySpec == LazyInit /\ [][LazyNext]_vars

TypeOK ==
    /\ pc \in {"called", "returned", "panicked"}
    /\ req.impl \in Implementations

(***************************************************************************)
(* Vocabulary of the properties, written from their statements and not     *)
(* from the operators above.                                               *)
(***************************************************************************)
Returned(op) == pc = "returned" /\ req.op = op

\* ^[A-Z0-9]{7,8}$
BodyPattern(s) ==
    /\ Len(s) \in {7, 8}
    /\ \A i \in 1..Len(s) : s[i] \in (65..90) \cup (48..57)

\* ^[A-Z]{1,2}$
PrefixPattern(s) ==
    /\ Len(s) \in {1, 2}
    /\ \A i \in 1..Len(s) : s[i] \in 65..90

\* ^([A-Z]{1,2})([0-9]{6})([A0-9])$
FullPattern(s) ==
    /\ Len(s) \in {8, 9}
    /\ \A i \in 1..(Len(s) - 7) : s[i] \in 65..90
    /\ \A i \in (Len(s) - 6)..(Len(s) - 1) : s[i] \in 48..57
    /\ s[Len(s)] \in (48..57) \cup {65}

\* [A-Z]{1,2}[0-9]{6}
HkidBodyPattern(s) ==
    /\ Len(s) \in {7, 8}
    /\ \A i \in 1..(Len(s) - 6) : s[i] \in 65..90
    /\ \A i \in (Len(s) - 5)..Len(s) : s[i] \in 48..57

RECURSIVE WithoutParentheses(_)
WithoutParentheses(s) ==
    IF s = <<>> THEN <<>>
    ELSE IF Head(s) \in {40, 41} THEN WithoutParentheses(Tail(s))
    ELSE <<Head(s)>> \o WithoutParentheses(Tail(s))

\* letters valued 10..35, digits 0..9 and space 36
ValueOf(c) ==
    IF c = 32 THEN 36 ELSE IF c \in 48..57 THEN c - 48 ELSE c - 55

WeightedSum(body) ==
    LET b == IF Len(body) = 7 THEN <<32>> \o body ELSE body IN
    ValueOf(b[1]) * 9 + ValueOf(b[2]) * 8 + ValueOf(b[3]) * 7
      + ValueOf(b[4]) * 6 + ValueOf(b[5]) * 5 + ValueOf(b[6]) * 4
      + ValueOf(b[7]) * 3 + ValueOf(b[8]) * 2

\* d = (11 - (S mod 11)) mod 11, rendered 'A' for 10 and as the digit else
CheckCharacter(body) ==
    LET d == (11 - (WeightedSum(body) % 11)) % 11 IN
    IF d = 10 THEN 65 ELSE 48 + d

CheckCharacters == (48..57) \cup {65}

FormatError == Err("Invalid HKID format: incorrect structure.", <<>>)

PrefixOf(cleaned) == SubSeq(cleaned, 1, Len(cleaned) - 7)
BodyOf(cleaned) == SubSeq(cleaned, 1, Len(cleaned) - 1)

\* The operation of the implementation the call names.
CheckDigitOf(impl, body) ==
    IF impl = "free" THEN calculate_check_digit(body)
                     ELSE HKIDOps_calculate_check_digit(body)

ValidateOf(impl, full, m) ==
    IF impl = "free" THEN validate_hkid(full, m)
                     ELSE HKIDOps_validate_hkid(full, m)

IsOk(r) == r[1] = "Ok"
IsErr(r) == r[1] = "Err"

(***************************************************************************)
(* Properties                                                              *)
(***************************************************************************)

\* C1: for every body matching ^[A-Z0-9]{7,8}$, calculate_check_digit
\* returns the character of d = (11 - (S mod 11)) mod 11, S the weighted sum
\* of the body left-padded with a space to width 8 (weights 9..2, letters
\* 10..35, digits 0..9, space 36), 'A' for 10 and the digit otherwise.
C1_CheckDigitFormula ==
    (Returned("calculate_check_digit") /\ BodyPattern(req.text))
        => ret = Some(CheckCharacter(req.text))

C1_Witness ==
    /\ Returned("calculate_check_digit")
    /\ req.text = Str(<<"A","1","2","3","4","5","6">>)
    /\ ret = Some(Ord("3"))

\* C2: calculate_check_digit returns Some(c) with c in '0'..'9' or 'A' for
\* every string matching ^[A-Z0-9]{7,8}$ and None for every other string.
C2_CheckDigitTotal ==
    Returned("calculate_check_digit") =>
        IF BodyPattern(req.text)
          THEN \E c \in CheckCharacters : ret = Some(c)
          ELSE ret = None

C2_Witness ==
    /\ Returned("calculate_check_digit")
    /\ req.text = Str(<<"A","1","2","3","4","5">>)
    /\ ret = None

\* C3: validate_hkid returns Ok(true) exactly when the cleaned input matches
\* the full pattern, the prefix check (if requested) passes and the provided
\* check character is the calculated one; when the structure is accepted
\* and the check character differs it returns Ok(false), not an error.
C3_ValidateResult ==
    Returned("validate_hkid") =>
        LET cleaned == WithoutParentheses(req.text)
            accepted ==
                /\ FullPattern(cleaned)
                /\ (req.must_exist_in_enum
                      => PrefixOf(cleaned) \in KnownPrefixTexts)
            matches ==
                CheckDigitOf(req.impl, BodyOf(cleaned))
                    = Some(cleaned[Len(cleaned)])
        IN
        /\ (ret = Ok(TRUE)) <=> (accepted /\ matches)
        /\ (accepted /\ ~matches) => ret = Ok(FALSE)

C3_Witness ==
    /\ Returned("validate_hkid")
    /\ req.text = Str(<<"A","1","2","3","4","5","6","(","9",")">>)
    /\ ret = Ok(FALSE)

\* C4: round trip: whenever generate_hkid(p, m) succeeds with hkid,
\* validate_hkid(hkid, m) returns Ok(true), for every prefix argument, flag
\* and random draw.
C4_RoundTrip ==
    (Returned("generate_hkid") /\ IsOk(ret))
        => ValidateOf(req.impl, ret[2], req.must_exist_in_enum) = Ok(TRUE)

\* C5: generate_hkid(Some(p), false) returns an error if and only if p does
\* not match ^[A-Z]{1,2}$; otherwise it succeeds with p unchanged as the
\* prefix, known or not.
C5_GenerateAnyPrefix ==
    (/\ Returned("generate_hkid")
     /\ req.prefix # None
     /\ ~req.must_exist_in_enum)
        => /\ IsErr(ret) <=> ~PrefixPattern(req.prefix[1])
           /\ IsOk(ret) =>
                /\ Len(ret[2]) = Len(req.prefix[1]) + 9
                /\ SubSeq(ret[2], 1, Len(req.prefix[1])) = req.prefix[1]

\* C6: generate_hkid(Some(p), true) returns an error if and only if p does
\* not match ^[A-Z]{1,2}$ or HKIDPrefix::parse(p) is Unknown; otherwise it
\* succeeds and the returned string starts with p.
C6_GenerateKnownPrefix ==
    (/\ Returned("generate_hkid")
     /\ req.prefix # None
     /\ req.must_exist_in_enum)
        => /\ IsErr(ret) <=>
                \/ ~PrefixPattern(req.prefix[1])
                \/ HKIDPrefix_parse(req.prefix[1]).variant = UnknownVariant
           /\ IsOk(ret) =>
                /\ Len(ret[2]) >= Len(req.prefix[1])
                /\ SubSeq(ret[2], 1, Len(req.prefix[1])) = req.prefix[1]

C6_Witness ==
    /\ Returned("generate_hkid")
    /\ req.prefix = Some(Str(<<"W","X">>))
    /\ req.must_exist_in_enum
    /\ IsOk(ret)
    /\ SubSeq(ret[2], 1, 2) = Str(<<"W","X">>)

\* C7: every string a successful generate_hkid returns is body ( c ), the
\* body one or two uppercase letters and exactly six digits, c the check
\* digit calculated for the body, the length 10 or 11.
C7_GeneratedForm ==
    (Returned("generate_hkid") /\ IsOk(ret))
        => LET hkid == ret[2]
               body == SubSeq(hkid, 1, Len(hkid) - 3)
           IN
           /\ Len(hkid) \in {10, 11}
           /\ HkidBodyPattern(body)
           /\ hkid[Len(hkid) - 2] = 40
           /\ hkid[Len(hkid)] = 41
           /\ CheckDigitOf(req.impl, body) = Some(hkid[Len(hkid) - 1])

\* C8: validate_hkid rejects with the format error every input that is
\* empty, lowercase-only, or has '(' or ')' anywhere but as a single pair
\* around the final check character.
LowercaseOnly(s) == Len(s) > 0 /\ \A i \in 1..Len(s) : s[i] \in 97..122

\* a parenthesis that is not part of one pair around the last character
StrayParenthesis(s) ==
    \E i \in 1..Len(s) :
        /\ s[i] \in {40, 41}
        /\ ~(/\ Len(s) >= 3
             /\ s[Len(s) - 2] = 40
             /\ s[Len(s)] = 41
             /\ i \in {Len(s) - 2, Len(s)})

C8_StrayParenthesesRejected ==
    (/\ Returned("validate_hkid")
     /\ \/ req.text = <<>>
        \/ LowercaseOnly(req.text)
        \/ StrayParenthesis(req.text))
        => ret = FormatError

\* C8 as amended: validate_hkid rejects with the format error every input
\* that is empty or lowercase-only; an input with '(' or ')' in other
\* positions is rejected with the format error exactly when the text left
\* after removing every '(' and ')' does not match the full pattern.
C8_ParenthesesRemovedAnywhere ==
    Returned("validate_hkid") =>
        /\ (req.text = <<>> \/ LowercaseOnly(req.text)) => ret = FormatError
        /\ StrayParenthesis(req.text) =>
              (ret = FormatError
                  <=> ~FullPattern(WithoutParentheses(req.text)))

C8_Witness ==
    /\ Returned("validate_hkid")
    /\ req.text = Str(<<"(","A",")","1","2","3","4","5","6","(","3",")">>)
    /\ ret = Ok(TRUE)

\* C9: validate_hkid returns Err("Invalid HKID format: incorrect
\* structure.") for every input whose parenthesis-stripped form does not
\* match the full pattern, whatever must_exist_in_enum is, so before any
\* prefix or checksum check.
C9_FormatErrorFirst ==
    (/\ Returned("validate_hkid")
     /\ ~FullPattern(WithoutParentheses(req.text)))
        => ret = Err("Invalid HKID format: incorrect structure.", <<>>)

C9_Witness ==
    /\ Returned("validate_hkid")
    /\ req.text = Str(<<"Z","Z","1","2","3","4","5","(","7",")">>)
    /\ req.must_exist_in_enum
    /\ ret = Err("Invalid HKID format: incorrect structure.", <<>>)

\* C10: for a structurally well-formed input, validate_hkid(x, true)
\* returns Err("Prefix '<prefix>' is not recognized.") naming the captured
\* prefix whenever the prefix is not a known code, whatever the check
\* character; validate_hkid(x, false) never returns that error; for a known
\* prefix both flag values give the same result.
C10_UnknownPrefixError ==
    (/\ Returned("validate_hkid")
     /\ FullPattern(WithoutParentheses(req.text)))
        => LET prefix == PrefixOf(WithoutParentheses(req.text))
               known == prefix \in KnownPrefixTexts
           IN
           /\ (req.must_exist_in_enum /\ ~known)
                 => ret = Err("Prefix '{}' is not recognized.", prefix)
           /\ ~req.must_exist_in_enum
                 => ~(IsErr(ret) /\ ret[2] = "Prefix '{}' is not recognized.")
           /\ known
                 => ret = ValidateOf(req.impl, req.text,
                                     ~req.must_exist_in_enum)

C10_Witness ==
    /\ Returned("validate_hkid")
    /\ req.text = Str(<<"X","X","1","2","3","4","5","6","(","1",")">>)
    /\ req.must_exist_in_enum
    /\ ret = Err("Prefix '{}' is not recognized.", Str(<<"X","X">>))

\* C11: validate_hkid gives the same result whether or not the check
\* character is parenthesized: for every body b, check character c and flag
\* m, validate_hkid(b ( c ), m) = validate_hkid(b c, m).
C11_ParenthesizedSame ==
    LET n == Len(req.text) IN
    (/\ Returned("validate_hkid")
     /\ n >= 3
     /\ req.text[n - 2] = 40
     /\ req.text[n] = 41)
        => ret = ValidateOf(req.impl,
                            SubSeq(req.text, 1, n - 3) \o <<req.text[n - 1]>>,
                            req.must_exist_in_enum)

C11_Witness ==
    /\ Returned("validate_hkid")
    /\ req.text = Str(<<"A","B","1","2","3","4","5","6","(","9",")">>)
    /\ ret = Ok(TRUE)
    /\ ValidateOf(req.impl, Str(<<"A","B","1","2","3","4","5","6","9">>),
                  req.must_exist_in_enum) = Ok(TRUE)

\* C12: left-padding invariance as stated: for every valid body b of length
\* 7, calculate_check_digit(b) = calculate_check_digit(" " b).
C12_PaddingInvariance ==
    (/\ Returned("calculate_check_digit")
     /\ Len(req.text) = 8
     /\ req.text[1] = 32
     /\ BodyPattern(Tail(req.text)))
        => ret = CheckDigitOf(req.impl, Tail(req.text))

\* C12 (amended): for every valid body b of length 7,
\* calculate_check_digit(b) is the check character of the weighted sum over
\* " " b (the space valued 36 under weight 9), while
\* calculate_check_digit(" " b) itself is None, a space being outside
\* ^[A-Z0-9]{7,8}$.
C12_PaddingInternalOnly ==
    (/\ Returned("calculate_check_digit")
     /\ Len(req.text) = 8
     /\ req.text[1] = 32
     /\ BodyPattern(Tail(req.text)))
        => /\ ret = None
           /\ CheckDigitOf(req.impl, Tail(req.text))
                = Some(CheckCharacter(req.text))

C12_Witness ==
    /\ Returned("calculate_check_digit")
    /\ req.text = Str(<<" ","P","1","2","3","4","5","6">>)
    /\ ret = None
    /\ CheckDigitOf(req.impl, Tail(req.text)) = Some(Ord("4"))

\* C13: HKIDSymbol::parse is total: it returns a symbol value and never
\* panics, for every text, the empty text and texts outside ASCII (such as
\* a single character of 2 bytes) included.
C13_SymbolParseTotal ==
    (req.op = "HKIDSymbol_parse" /\ pc # "called") => pc = "returned"

\* a nonempty run of decimal digits
AllDigits(s) == s # <<>> /\ \A i \in 1..Len(s) : s[i] \in 48..57

RECURSIVE DecimalValue(_)
DecimalValue(s) ==
    IF s = <<>> THEN 0
    ELSE DecimalValue(SubSeq(s, 1, Len(s) - 1)) * 10 + (s[Len(s)] - 48)

\* decimal digits, with or without one '+' in front
Numeral(s) == AllDigits(s) \/ (s # <<>> /\ s[1] = 43 /\ AllDigits(Tail(s)))
NumeralValue(s) == DecimalValue(IF s[1] = 43 THEN Tail(s) ELSE s)

\* a text that starts with 'L' and is longer than one character
LostCardText(s) == Len(s) > 1 /\ s[1] = 76

SymbolReturned == req.op = "HKIDSymbol_parse" /\ pc = "returned"

\* C14: as stated: a text that starts with 'L', is longer than 1 and whose
\* remainder is the decimal numeral of n is classified LostCard(n) for
\* every n, values above 255 included; when the remainder is not a number
\* the result is Unknown carrying the text.
C14_LostCardEveryCount ==
    (SymbolReturned /\ LostCardText(req.text)) =>
        /\ AllDigits(Tail(req.text))
             => ret = [variant |-> "LostCard",
                       payload |-> <<DecimalValue(Tail(req.text))>>]
        /\ ~Numeral(Tail(req.text))
             => ret = [variant |-> "Unknown", payload |-> req.text]

\* C14 (amended): a text that starts with 'L', is longer than 1 and whose
\* remainder is a decimal numeral (digits, optionally after one '+') of a
\* value n of at most 255 is classified LostCard(n); when the remainder is
\* not such a numeral, or its value is above 255, the result is Unknown
\* carrying the text.
C14_LostCardUpTo255 ==
    (SymbolReturned /\ LostCardText(req.text)) =>
        IF Numeral(Tail(req.text)) /\ NumeralValue(Tail(req.text)) <= 255
          THEN ret = [variant |-> "LostCard",
                      payload |-> <<NumeralValue(Tail(req.text))>>]
          ELSE ret = [variant |-> "Unknown", payload |-> req.text]

C14_Witness ==
    /\ SymbolReturned
    /\ req.text = Str(<<"L","2","5","6">>)
    /\ ret = [variant |-> "Unknown", payload |-> Str(<<"L","2","5","6">>)]

\* "***", "*", "A", "B", "C", "N", "O", "R", "U", "W", "X", "Y", "Z"
FixedCodes ==
    {<<42, 42, 42>>, <<42>>} \cup
    {<<c>> : c \in {65, 66, 67, 78, 79, 82, 85, 87, 88, 89, 90}}

SymbolCalled == req.op = "HKIDSymbol_parse" /\ pc # "called"

\* C15: HKIDSymbol::parse applies its rules in order and the first match
\* wins: a text that is no fixed code and no 'L' text is
\* IssuingOfficeCode(text) exactly when it has two characters of which the
\* second is a decimal digit; a two-character 'L' and digit is LostCard;
\* every other text is Unknown carrying the text.
C15_FirstMatchWins ==
    (SymbolCalled /\ req.text \notin FixedCodes) =>
        /\ pc = "returned"
        /\ IF LostCardText(req.text)
             THEN (Len(req.text) = 2 /\ req.text[2] \in 48..57)
                     => ret.variant = "LostCard"
           ELSE IF Len(req.text) = 2 /\ req.text[2] \in 48..57
             THEN ret = [variant |-> "IssuingOfficeCode",
                         payload |-> req.text]
             ELSE ret = [variant |-> "Unknown", payload |-> req.text]

\* the variants that carry a payload
PayloadVariants == {"IssuingOfficeCode", "LostCard", "Unknown"}

\* C16: each of the 13 fixed literals is classified as a fixed variant of
\* its own, and that variant's "Symbol" property is the literal, so that
\* parse(code(v)) = v for every fixed variant v.
C16_FixedCodesRoundTrip ==
    (SymbolReturned /\ req.text \in FixedCodes) =>
        /\ ret.variant \notin PayloadVariants
        /\ ret.payload = <<>>
        /\ get_str_Symbol(ret) = req.text
        /\ HKIDSymbol_parse(get_str_Symbol(ret)) = ret
        /\ \A other \in FixedCodes \ {req.text} :
              HKIDSymbol_parse(other) # ret

C16_Witness ==
    /\ SymbolReturned
    /\ req.text = Str(<<"W">>)
    /\ ret = [variant |-> "BornInMacau", payload |-> <<>>]
    /\ get_str_Symbol(ret) = Str(<<"W">>)

\* A, B, C, D, E, F, G, H, J, K, L, M, N, P, R, S, T, V, W, Y, Z and
\* EC, WX, XA, XB, XC, XD, XE, XG, XH
KnownCodes ==
    {<<c>> : c \in {65, 66, 67, 68, 69, 70, 71, 72, 74, 75, 76, 77, 78, 80,
                    82, 83, 84, 86, 87, 89, 90}}
      \cup {<<69, 67>>, <<87, 88>>, <<88, 65>>, <<88, 66>>, <<88, 67>>,
            <<88, 68>>, <<88, 69>>, <<88, 71>>, <<88, 72>>}

\* C17: HKIDPrefix::parse is total and case-sensitive: parse(s) is a known
\* prefix exactly when s is one of the 30 codes; every other text, the
\* lowercase and mixed-case forms, "" and "ZZ" included, is Unknown
\* carrying the text.
C17_PrefixParseKnown ==
    (req.op = "HKIDPrefix_parse" /\ pc # "called") =>
        /\ pc = "returned"
        /\ is_known(ret) <=> req.text \in KnownCodes
        /\ req.text \notin KnownCodes
             => ret = [variant |-> <<"Unknown">>, payload |-> req.text]

C17_Witness ==
    /\ Returned("HKIDPrefix_parse")
    /\ req.text = Str(<<"e","c">>)
    /\ ~is_known(ret)
    /\ ret.payload = Str(<<"e","c">>)

\* C18: as_str(parse(s)) = s for every text s, and the deprecated to_str
\* returns the same string as as_str for every prefix value.
C18_PrefixAsStr ==
    /\ Returned("as_str") =>
          \A s \in PrefixParseInputs :
              HKIDPrefix_parse(s) = req.self => ret = s
    /\ Returned("to_str") => ret = as_str(req.self)

C18_Witness ==
    /\ Returned("as_str")
    /\ req.self = HKIDPrefix_parse(Str(<<"Z","Z">>))
    /\ ret = Str(<<"Z","Z">>)
    /\ to_str(req.self) = ret

\* C19: char_to_value gives 10..35 for 'A'..'Z', 0..9 for '0'..'9' and 36
\* for the space, letters being folded to uppercase first, so that a
\* lowercase letter has the value of its uppercase letter; every value
\* returned lies in 0..36.
C19_CharValues ==
    Returned("char_to_value") =>
        /\ req.c \in 65..90 => ret = Some(10 + (req.c - 65))
        /\ req.c \in 97..122 => ret = Some(10 + (req.c - 97))
        /\ req.c \in 48..57 => ret = Some(req.c - 48)
        /\ req.c = 32 => ret = Some(36)
        /\ ret # None => ret[1] \in 0..36

C19_Witness ==
    /\ Returned("char_to_value")
    /\ req.c = 122
    /\ ret = Some(35)

\* C20: char_to_value returns no value for every character that is no
\* ASCII letter, digit or space: '@', '_', '-' and every character outside
\* ASCII, those above 255 whose low 8 bits are the code of a letter, a digit
\* or the space included, in the free function and in the HKIDOps helper.
C20_OtherCharactersNone ==
    (/\ Returned("char_to_value")
     /\ req.c \notin (65..90) \cup (97..122) \cup (48..57) \cup {32})
        => ret = None

\* the characters of a text before its first decimal digit
RECURSIVE BeforeFirstDigit(_)
BeforeFirstDigit(s) ==
    IF s = <<>> \/ Head(s) \in 48..57 THEN <<>>
    ELSE <<Head(s)>> \o BeforeFirstDigit(Tail(s))

\* The operation of the implementation the call names, under a draw.
GenerateOf(impl, prefix, m, rng) ==
    IF impl = "free" THEN generate_hkid(prefix, m, rng)
                     ELSE HKIDOps_generate_hkid(prefix, m, rng)

\* C21: generate_hkid(None, true) always succeeds, and the prefix of the
\* HKID returned (the characters before the first digit) is one that
\* HKIDPrefix::parse classifies as known, for every random choice.
C21_RandomKnownPrefix ==
    (/\ Returned("generate_hkid")
     /\ req.prefix = None
     /\ req.must_exist_in_enum)
        => /\ IsOk(ret)
           /\ BeforeFirstDigit(ret[2]) \in KnownCodes
           /\ is_known(HKIDPrefix_parse(BeforeFirstDigit(ret[2])))

C21_Witness ==
    /\ Returned("generate_hkid")
    /\ req.prefix = None
    /\ req.must_exist_in_enum
    /\ req.impl = "HKIDOps"
    /\ IsOk(ret)
    /\ BeforeFirstDigit(ret[2]) = Str(<<"X","H">>)

\* C22: generate_hkid(None, false) always succeeds, and the prefix of the
\* HKID returned has length 1 or 2 and consists of uppercase letters only,
\* for every random choice; both lengths and every letter are possible
\* outcomes.
C22_RandomAnyPrefix ==
    (req.op = "generate_hkid" /\ req.prefix = None /\ ~req.must_exist_in_enum)
        => /\ pc = "returned"
             => /\ IsOk(ret)
                /\ Len(BeforeFirstDigit(ret[2])) \in {1, 2}
                /\ \A i \in 1..Len(BeforeFirstDigit(ret[2])) :
                      ret[2][i] \in 65..90
           /\ pc = "called"
             => \A len \in {1, 2}, c \in 65..90 :
                  \E rng \in Draws(None, FALSE) :
                    LET r == GenerateOf(req.impl, None, FALSE, rng) IN
                    /\ IsOk(r)
                    /\ Len(BeforeFirstDigit(r[2])) = len
                    /\ BeforeFirstDigit(r[2])[len] = c

C22_Witness ==
    /\ Returned("generate_hkid")
    /\ req.prefix = None
    /\ ~req.must_exist_in_enum
    /\ IsOk(ret)
    /\ BeforeFirstDigit(ret[2]) = Str(<<"Q","Z">>)

\* C24: as stated: the description of a prefix is the description string
\* of each known variant (e.g. A, EC, XB) and is absent for Unknown.
C24_UnknownHasNoDescription ==
    Returned("get_message") =>
        IF req.self.variant = <<"Unknown">> THEN ret = None ELSE ret # None

\* C24 (amended): the description of a prefix is the description string of
\* each known variant (e.g. A, EC, XB) and is the fixed string "Unknown or
\* unspecified prefix" for the Unknown variant, whatever text it carries.
C24_EveryVariantDescribed ==
    Returned("get_message") =>
        /\ ret # None
        /\ req.self.variant = <<"Unknown">>
             => ret = Some("Unknown or unspecified prefix")
        /\ req.self.variant # <<"Unknown">>
             => ret # Some("Unknown or unspecified prefix")
        /\ req.self.variant = <<"A">>
             => ret = Some("Original ID cards, issued between 1949 and 1962, most holders born before 1950")
        /\ req.self.variant = <<"E","C">>
             => ret = Some("European Community officers and dependents (1993 - 2003)")
        /\ req.self.variant = <<"X","B">>
             => ret = Some("Persons without Chinese names issued before 27 Mar 1983")

C24_Witness ==
    /\ Returned("get_message")
    /\ req.self = [variant |-> <<"Unknown">>, payload |-> Str(<<"Z","Z">>)]
    /\ ret = Some("Unknown or unspecified prefix")

A123456 == Str(<<"A","1","2","3","4","5","6">>)
ZZ123456 == Str(<<"Z","Z","1","2","3","4","5","6">>)

\* the text body ( c )
Parenthesized(body, c) == body \o <<40, Ord(c), 41>>

InternalErrors ==
    {"Failed to calculate check digit", "Missing check digit"}

\* C27: the internal errors of validate_hkid are unreachable: for every
\* text and flag it returns neither "Failed to calculate check digit" nor
\* "Missing check digit", every prefix and digits captured by
\* ^([A-Z]{1,2})([0-9]{6})([A0-9])$ forming a body that matches
\* ^[A-Z0-9]{7,8}$, for which the check digit exists.
C27_InternalErrorsUnreachable ==
    Returned("validate_hkid") =>
        /\ ~(IsErr(ret) /\ ret[2] \in InternalErrors)
        /\ FullPattern(WithoutParentheses(req.text))
             => /\ BodyPattern(BodyOf(WithoutParentheses(req.text)))
                /\ CheckDigitOf(req.impl,
                                BodyOf(WithoutParentheses(req.text))) # None

C27_Witness ==
    /\ Returned("validate_hkid")
    /\ req.text = Parenthesized(Str(<<"A","B","1","2","3","4","5","6">>), "9")
    /\ req.impl = "HKIDOps"
    /\ ret = Ok(TRUE)

\* C28: were the known-prefix table empty, generate_hkid(None, true) would
\* return the error "No valid prefixes in HKIDPrefix enum" and neither
\* crash nor return a string, in both implementations; random_known_prefix
\* returns None in that case only.
C28_EmptyTableIsAnError ==
    (req.op = "generate_hkid_among" /\ pc # "called") =>
        /\ pc = "returned"
        /\ IF req.variants = <<>>
             THEN ret = Err("No valid prefixes in HKIDPrefix enum", <<>>)
             ELSE IsOk(ret)

\* C29: the two implementations agree on every input:
\* HKIDOps::calculate_check_digit(s) = calculate_check_digit(s) for every
\* text s, and HKIDOps::validate_hkid(x, m) = validate_hkid(x, m) (the same
\* Ok value or the same error message) for every text x and flag m.
C29_ImplementationsAgree ==
    /\ Returned("calculate_check_digit") =>
          /\ ret = CheckDigitOf("free", req.text)
          /\ ret = CheckDigitOf("HKIDOps", req.text)
    /\ Returned("validate_hkid") =>
          /\ ret = ValidateOf("free", req.text, req.must_exist_in_enum)
          /\ ret = ValidateOf("HKIDOps", req.text, req.must_exist_in_enum)

C29_Witness ==
    /\ Returned("calculate_check_digit")
    /\ req.impl = "HKIDOps"
    /\ req.text = Str(<<"W","X","2","4","6","9","1","2">>)
    /\ ret # None
    /\ ret = CheckDigitOf("free", req.text)

\* the text with its i-th character replaced by c
Replaced(s, i, c) == [j \in 1..Len(s) |-> IF j = i THEN c ELSE s[j]]

\* C30: single-digit error detection: two bodies [A-Z]{1,2}[0-9]{6} that
\* differ in the value of exactly one of the six digits have different check
\* characters; so changing one digit of an HKID for which validate_hkid
\* returns Ok(true) gives Ok(false).
C30_SingleDigitErrorDetected ==
    /\ (Returned("calculate_check_digit") /\ HkidBodyPattern(req.text)) =>
          \A i \in (Len(req.text) - 5)..Len(req.text) :
              \A d \in (48..57) \ {req.text[i]} :
                  /\ CheckDigitOf(req.impl, Replaced(req.text, i, d)) # None
                  /\ CheckDigitOf(req.impl, Replaced(req.text, i, d)) # ret
    /\ (Returned("validate_hkid") /\ ret = Ok(TRUE)) =>
          LET hkid == WithoutParentheses(req.text) IN
          \A i \in (Len(hkid) - 6)..(Len(hkid) - 1) :
              \A d \in (48..57) \ {hkid[i]} :
                  ValidateOf(req.impl, Replaced(hkid, i, d),
                             req.must_exist_in_enum) = Ok(FALSE)

C30_Witness ==
    /\ Returned("validate_hkid")
    /\ req.text = Parenthesized(A123456, "3")
    /\ ret = Ok(TRUE)
    /\ ValidateOf(req.impl, Parenthesized(Replaced(A123456, 7, Ord("7")), "3"),
                  req.must_exist_in_enum) = Ok(FALSE)

\* C23: the compiled patterns are initialized exactly once even when
\* several callers make their first call concurrently: no initializer runs
\* twice, no caller observes a pattern that is not completely initialized,
\* and an initialized pattern is never modified again.
C23_InitializedOnce ==
    /\ [](/\ \A m \in Matchers :
               /\ cell[m].inits <= 1
               /\ cell[m].state = "ready" <=> cell[m].inits = 1
          /\ \A t \in Threads : thread[t].seen \subseteq {ReadyCell})
    /\ [][\A m \in Matchers :
              cell[m].state = "ready" => cell'[m] = cell[m]]_vars

\* two callers dereference the same pattern for the first time: one runs
\* its initializer and the other waits
C23_Witness ==
    /\ cell["VALID_HKID_BODY_REGEX"] = [state |-> "running", inits |-> 0]
    /\ thread[1].at = "init"
    /\ Head(thread[1].todo) = "VALID_HKID_BODY_REGEX"
    /\ thread[2].at = "deref"
    /\ thread[2].todo = <<"VALID_HKID_BODY_REGEX">>

====
